---- MODULE Spec2Model ----
(***************************************************************************)
(* The completion-tracking decorator Done<I> of src/source/done.rs.        *)
(*                                                                         *)
(* A Done wraps an inner source `input`, shares the atomic counter         *)
(* `signal`, and owns the flag `signal_sent` and the mutex-guarded         *)
(* callback slot `on_done`.  Done::next is modelled step by step at the    *)
(* points where it touches shared state (the atomic fetch_sub, the lock,   *)
(* the callback, the release of the guard), set_on_done likewise (lock,    *)
(* write, release).                                                        *)
(*                                                                         *)
(* Spec is the program as safe Rust runs it: next and try_seek borrow the  *)
(* decorator mutably (&mut self), set_on_done and the metadata queries     *)
(* borrow it shared (&self), so a call on one decorator never overlaps     *)
(* another call on the same decorator.                                     *)
(* SpecRace drops the borrow rule: a setter thread runs set_on_done at any *)
(* point of the consumer's next (the interleavings the design document     *)
(* describes for the callback slot).                                       *)
(* SpecOwner adds the accessors inner, inner_mut and into_inner and the    *)
(* drop of the decorator to next and set_on_done.                          *)
(* SpecShared runs several decorators on one counter beside other holders  *)
(* that increment and decrement it.                                        *)
(* SpecLive is SpecRace without try_seek, under fair scheduling of the     *)
(* consumer and of a set_on_done that has begun.                           *)
(***************************************************************************)
EXTENDS Integers, Sequences, FiniteSets, TLC

\* ------------------------------------------------------------------ bounds
MaxItems == 2
MaxCalls == 4
MaxSeeks == 1
MaxSets == 2
MaxExternal == 1
UsizeBits == 2

\* The decorators of the system.
Decs == {1}

\* The decorators of a system in which several share one counter.
Sharing == {1, 2}

\* ------------------------------------------------------------- value types
\* Option<T>: None is the empty sequence, Some(x) the one-element sequence.
None == << >>
Some(x) == << x >>

\* A slot that a writer has begun to overwrite and not finished.
Torn == << 0, 0 >>

RECURSIVE Pow2(_)
Pow2(n) == IF n = 0 THEN 1 ELSE 2 * Pow2(n - 1)

\* usize::MAX for a usize of UsizeBits bits.
UsizeModulus == Pow2(UsizeBits)
UsizeMax == UsizeModulus - 1

\* ------------------------------------------------------------ inner source
\* A source per the Source contract: a finite run of items, a position, and
\* a kind: a "buffer" is stereo, knows its length and seeks; a "stream" is
\* mono, of unknown length, and does not seek.  The decorator never looks at
\* the value of an item, so the i-th item of every source is the sample i.
ItemsOf(n) == [i \in 1 .. n |-> i]

Sources ==
    { [ kind |-> k, items |-> ItemsOf(n), pos |-> 0 ] :
        k \in {"buffer", "stream"}, n \in 0 .. MaxItems }

NoSource == [ kind |-> "none", items |-> << >>, pos |-> 0 ]

\* Iterator::next of the inner source: the next item, or None for ever after.
SrcNext(s) ==
    IF s.pos < Len(s.items)
    THEN [ item |-> Some(s.items[s.pos + 1]), src |-> [s EXCEPT !.pos = s.pos + 1] ]
    ELSE [ item |-> None, src |-> s ]

SrcCurrentFrameLen(s) ==
    IF s.kind = "buffer" THEN Some(Len(s.items) - s.pos) ELSE None

SrcChannels(s) == IF s.kind = "buffer" THEN 2 ELSE 1

SrcSampleRate(s) == IF s.kind = "buffer" THEN 48000 ELSE 44100

SrcTotalDuration(s) == IF s.kind = "buffer" THEN Some(Len(s.items)) ELSE None

\* Source::try_seek of the inner source; a failed seek leaves it unchanged.
SrcTrySeek(s, t) ==
    IF s.kind # "buffer" THEN [ res |-> "Err(NotSupported)", src |-> s ]
    ELSE IF t > Len(s.items) THEN [ res |-> "Err(OutOfRange)", src |-> s ]
    ELSE [ res |-> "Ok", src |-> [s EXCEPT !.pos = t] ]

SeekTargets == 0 .. MaxItems

\* --------------------------------------------------------------- the state
VARIABLES
    signal,         \* the shared AtomicUsize
    input,          \* Done.input, per decorator
    signal_sent,    \* Done.signal_sent
    on_done,        \* the Option inside Done.on_done
    lock,           \* who holds the Mutex of on_done: "free", "next", "set"
    poisoned,       \* the Mutex's poison flag
    pc,             \* where the consumer is in Done::next
    nxt,            \* the local `next` of Done::next
    callback,       \* the local `callback` of Done::next
    spc,            \* where the setter is in set_on_done
    arg,            \* the `callback` argument of the running set_on_done
    \* what the calls returned
    ret,            \* outcome of the last finished next()
    seekRet,        \* the last try_seek: its argument and its result
    setRet,         \* outcome of the last finished set_on_done
    meta,           \* the metadata query made since the last next or try_seek
    access,         \* the last use of inner, inner_mut or into_inner
    \* history
    signal0,        \* the counter when the system started
    ext,            \* net change other holders made to the counter
    calls,          \* number of next() calls begun
    seeks,          \* number of try_seek calls
    sets,           \* number of set_on_done calls begun
    stored,         \* the last set_on_done call that stored its callback
    decs,           \* number of fetch_sub this decorator made
    fetch,          \* counter before and after this decorator's last fetch_sub
    invoked,        \* the callback invocations, in order
    atCall,         \* input and slot when the running next() began
    endSeen         \* the first next() that got None from the inner source

shared == << signal, signal0, ext >>
fields == << input, signal_sent, on_done, lock, poisoned >>
locals == << pc, nxt, callback, spc, arg >>
results == << ret, seekRet, setRet, meta, access >>
history == << calls, seeks, sets, stored, decs, fetch, invoked, atCall, endSeen >>
vars == << shared, fields, locals, results, history >>

NoOutcome == [ outcome |-> "none", value |-> None ]
Returned(v) == [ outcome |-> "returned", value |-> v ]
Panicked == [ outcome |-> "panicked", value |-> None ]

NoMeta == [ method |-> "none", current_frame_len |-> None, channels |-> 0,
            sample_rate |-> 0, total_duration |-> None ]

NoSeek == [ pos |-> 0, res |-> "none" ]

NoAccess == [ via |-> "none", item |-> None ]

NoEnd == [ call |-> 0, slot |-> None, slotAtLock |-> None, storedAtLock |-> 0 ]

Init ==
    /\ signal \in 0 .. UsizeMax
    /\ signal0 = signal
    /\ ext = 0
    /\ input = [d \in Decs |-> NoSource]
    /\ signal_sent = [d \in Decs |-> FALSE]
    /\ on_done = [d \in Decs |-> None]
    /\ lock = [d \in Decs |-> "free"]
    /\ poisoned = [d \in Decs |-> FALSE]
    /\ pc = [d \in Decs |-> "unborn"]
    /\ nxt = [d \in Decs |-> None]
    /\ callback = [d \in Decs |-> None]
    /\ spc = [d \in Decs |-> "idle"]
    /\ arg = [d \in Decs |-> 0]
    /\ ret = [d \in Decs |-> NoOutcome]
    /\ seekRet = [d \in Decs |-> NoSeek]
    /\ setRet = [d \in Decs |-> "none"]
    /\ meta = [d \in Decs |-> NoMeta]
    /\ access = [d \in Decs |-> NoAccess]
    /\ calls = [d \in Decs |-> 0]
    /\ seeks = [d \in Decs |-> 0]
    /\ sets = [d \in Decs |-> 0]
    /\ stored = [d \in Decs |-> 0]
    /\ decs = [d \in Decs |-> 0]
    /\ fetch = [d \in Decs |-> [pre |-> 0, post |-> 0]]
    /\ invoked = [d \in Decs |-> << >>]
    /\ atCall = [d \in Decs |-> [input |-> NoSource, slot |-> None]]
    /\ endSeen = [d \in Decs |-> NoEnd]

\* Several decorators built over one counter, none constructed yet.
InitShared ==
    /\ signal \in 0 .. UsizeMax
    /\ signal0 = signal
    /\ ext = 0
    /\ input = [d \in Sharing |-> NoSource]
    /\ signal_sent = [d \in Sharing |-> FALSE]
    /\ on_done = [d \in Sharing |-> None]
    /\ lock = [d \in Sharing |-> "free"]
    /\ poisoned = [d \in Sharing |-> FALSE]
    /\ pc = [d \in Sharing |-> "unborn"]
    /\ nxt = [d \in Sharing |-> None]
    /\ callback = [d \in Sharing |-> None]
    /\ spc = [d \in Sharing |-> "idle"]
    /\ arg = [d \in Sharing |-> 0]
    /\ ret = [d \in Sharing |-> NoOutcome]
    /\ seekRet = [d \in Sharing |-> NoSeek]
    /\ setRet = [d \in Sharing |-> "none"]
    /\ meta = [d \in Sharing |-> NoMeta]
    /\ access = [d \in Sharing |-> NoAccess]
    /\ calls = [d \in Sharing |-> 0]
    /\ seeks = [d \in Sharing |-> 0]
    /\ sets = [d \in Sharing |-> 0]
    /\ stored = [d \in Sharing |-> 0]
    /\ decs = [d \in Sharing |-> 0]
    /\ fetch = [d \in Sharing |-> [pre |-> 0, post |-> 0]]
    /\ invoked = [d \in Sharing |-> << >>]
    /\ atCall = [d \in Sharing |-> [input |-> NoSource, slot |-> None]]
    /\ endSeen = [d \in Sharing |-> NoEnd]

\* ------------------------------------------------------------ atomic usize
\* A subtraction that stops at 0.
FetchSubSaturating(v, n) == IF v >= n THEN v - n ELSE 0

\* AtomicUsize::fetch_sub: wrapping subtraction.
FetchSub(v, n) == (v - n) % UsizeModulus

\* fetch_add of std::sync::atomic::AtomicUsize.
FetchAdd(v, n) == (v + n) % UsizeModulus

\* Another holder of the counter (the mixer, a decorator of another kind)
\* increments it atomically.
ExternalFetchAdd ==
    /\ ext < MaxExternal
    /\ signal' = FetchAdd(signal, 1)
    /\ ext' = ext + 1
    /\ UNCHANGED << signal0, fields, locals, results, history >>

\* Another holder of the counter decrements it atomically.
ExternalFetchSub ==
    /\ ext > -MaxExternal
    /\ signal' = FetchSub(signal, 1)
    /\ ext' = ext - 1
    /\ UNCHANGED << signal0, fields, locals, results, history >>

\* ---------------------------------------------------------------- Done::new
\* A constructor that takes an empty source for finished and decrements at once.
NewDecrementing(d) ==
    /\ pc[d] = "unborn"
    /\ \E src \in Sources :
        /\ input' = [input EXCEPT ![d] = src]
        /\ signal' = IF Len(src.items) = 0 THEN FetchSub(signal, 1) ELSE signal
    /\ signal_sent' = [signal_sent EXCEPT ![d] = FALSE]
    /\ on_done' = [on_done EXCEPT ![d] = None]
    /\ lock' = [lock EXCEPT ![d] = "free"]
    /\ poisoned' = [poisoned EXCEPT ![d] = FALSE]
    /\ pc' = [pc EXCEPT ![d] = "idle"]
    /\ UNCHANGED << signal0, ext, nxt, callback, spc, arg, results, history >>

\* Done { input, signal, signal_sent: false, on_done: Arc::new(Mutex::new(None)) }
New(d) ==
    /\ pc[d] = "unborn"
    /\ \E src \in Sources : input' = [input EXCEPT ![d] = src]
    /\ signal_sent' = [signal_sent EXCEPT ![d] = FALSE]
    /\ on_done' = [on_done EXCEPT ![d] = None]
    /\ lock' = [lock EXCEPT ![d] = "free"]
    /\ poisoned' = [poisoned EXCEPT ![d] = FALSE]
    /\ pc' = [pc EXCEPT ![d] = "idle"]
    /\ UNCHANGED << shared, nxt, callback, spc, arg, results, history >>

\* --------------------------------------------------------------- Done::next
\* The test without the flag: every None counts as the end.
ExhaustedIgnoringFlag(sent, next) == next = None

\* The test of line 72: !self.signal_sent && next.is_none()
Exhausted(sent, next) == ~sent /\ next = None

\* A next that signals the end only of a source that has produced an item.
NextPullAfterItems(d) ==
    /\ pc[d] = "idle"
    /\ calls[d] < MaxCalls
    /\ LET r == SrcNext(input[d]) IN
        /\ input' = [input EXCEPT ![d] = r.src]
        /\ nxt' = [nxt EXCEPT ![d] = r.item]
        /\ pc' = [pc EXCEPT ![d] =
                    IF Exhausted(signal_sent[d], r.item) /\ input[d].pos > 0
                    THEN "fetch_sub" ELSE "return"]
        /\ endSeen' = [endSeen EXCEPT ![d] =
                    IF r.item = None /\ endSeen[d].call = 0
                    THEN [ call |-> calls[d] + 1, slot |-> on_done[d],
                           slotAtLock |-> None, storedAtLock |-> 0 ]
                    ELSE endSeen[d]]
    /\ calls' = [calls EXCEPT ![d] = calls[d] + 1]
    /\ atCall' = [atCall EXCEPT ![d] = [input |-> input[d], slot |-> on_done[d]]]
    /\ meta' = [meta EXCEPT ![d] = NoMeta]
    /\ UNCHANGED << shared, signal_sent, on_done, lock, poisoned, callback, spc, arg,
                    ret, seekRet, setRet, access, seeks, sets, stored, decs, fetch, invoked >>

\* A next that goes to the lock and the callback at the end before it has
\* decremented the counter and set the flag.
NextPullLockFirst(d) ==
    /\ pc[d] = "idle"
    /\ calls[d] < MaxCalls
    /\ LET r == SrcNext(input[d]) IN
        /\ input' = [input EXCEPT ![d] = r.src]
        /\ nxt' = [nxt EXCEPT ![d] = r.item]
        /\ pc' = [pc EXCEPT ![d] =
                    IF Exhausted(signal_sent[d], r.item) THEN "lock" ELSE "return"]
        /\ endSeen' = [endSeen EXCEPT ![d] =
                    IF r.item = None /\ endSeen[d].call = 0
                    THEN [ call |-> calls[d] + 1, slot |-> on_done[d],
                           slotAtLock |-> None, storedAtLock |-> 0 ]
                    ELSE endSeen[d]]
    /\ calls' = [calls EXCEPT ![d] = calls[d] + 1]
    /\ atCall' = [atCall EXCEPT ![d] = [input |-> input[d], slot |-> on_done[d]]]
    /\ meta' = [meta EXCEPT ![d] = NoMeta]
    /\ UNCHANGED << shared, signal_sent, on_done, lock, poisoned, callback, spc, arg,
                    ret, seekRet, setRet, access, seeks, sets, stored, decs, fetch, invoked >>

\* A next that takes the lock in every call to look at the slot.
NextPullAlwaysLocking(d) ==
    /\ pc[d] = "idle"
    /\ calls[d] < MaxCalls
    /\ LET r == SrcNext(input[d]) IN
        /\ input' = [input EXCEPT ![d] = r.src]
        /\ nxt' = [nxt EXCEPT ![d] = r.item]
        /\ pc' = [pc EXCEPT ![d] =
                    IF Exhausted(signal_sent[d], r.item) THEN "fetch_sub" ELSE "lock"]
        /\ endSeen' = [endSeen EXCEPT ![d] =
                    IF r.item = None /\ endSeen[d].call = 0
                    THEN [ call |-> calls[d] + 1, slot |-> on_done[d],
                           slotAtLock |-> None, storedAtLock |-> 0 ]
                    ELSE endSeen[d]]
    /\ calls' = [calls EXCEPT ![d] = calls[d] + 1]
    /\ atCall' = [atCall EXCEPT ![d] = [input |-> input[d], slot |-> on_done[d]]]
    /\ meta' = [meta EXCEPT ![d] = NoMeta]
    /\ UNCHANGED << shared, signal_sent, on_done, lock, poisoned, callback, spc, arg,
                    ret, seekRet, setRet, access, seeks, sets, stored, decs, fetch, invoked >>

\* let next = self.input.next(); if !self.signal_sent && next.is_none()
NextPull(d) ==
    /\ pc[d] = "idle"
    /\ calls[d] < MaxCalls
    /\ LET r == SrcNext(input[d]) IN
        /\ input' = [input EXCEPT ![d] = r.src]
        /\ nxt' = [nxt EXCEPT ![d] = r.item]
        /\ pc' = [pc EXCEPT ![d] =
                    IF Exhausted(signal_sent[d], r.item) THEN "fetch_sub" ELSE "return"]
        /\ endSeen' = [endSeen EXCEPT ![d] =
                    IF r.item = None /\ endSeen[d].call = 0
                    THEN [ call |-> calls[d] + 1, slot |-> on_done[d],
                           slotAtLock |-> None, storedAtLock |-> 0 ]
                    ELSE endSeen[d]]
    /\ calls' = [calls EXCEPT ![d] = calls[d] + 1]
    /\ atCall' = [atCall EXCEPT ![d] = [input |-> input[d], slot |-> on_done[d]]]
    /\ meta' = [meta EXCEPT ![d] = NoMeta]
    /\ UNCHANGED << shared, signal_sent, on_done, lock, poisoned, callback, spc, arg,
                    ret, seekRet, setRet, access, seeks, sets, stored, decs, fetch, invoked >>

\* The decrement without line 74: the flag is never set.
NextFetchSubNoFlag(d) ==
    /\ pc[d] = "fetch_sub"
    /\ signal' = FetchSub(signal, 1)
    /\ decs' = [decs EXCEPT ![d] = decs[d] + 1]
    /\ fetch' = [fetch EXCEPT ![d] = [pre |-> signal, post |-> signal']]
    /\ pc' = [pc EXCEPT ![d] = "lock"]
    /\ UNCHANGED << signal0, ext, input, signal_sent, on_done, lock, poisoned, nxt, callback,
                    spc, arg, results, calls, seeks, sets, stored, invoked, atCall,
                    endSeen >>

\* A decrement made of a load and a later store instead of one fetch_sub:
\* the loaded value waits in fetch[d].pre, marked by a post of -1.
NextFetchSubLoadStore(d) ==
    /\ pc[d] = "fetch_sub"
    /\ IF fetch[d].post # -1
       THEN /\ fetch' = [fetch EXCEPT ![d] = [pre |-> signal, post |-> -1]]
            /\ UNCHANGED << signal, signal_sent, decs, pc >>
       ELSE /\ signal' = FetchSub(fetch[d].pre, 1)
            /\ signal_sent' = [signal_sent EXCEPT ![d] = TRUE]
            /\ decs' = [decs EXCEPT ![d] = decs[d] + 1]
            /\ fetch' = [fetch EXCEPT ![d] = [pre |-> fetch[d].pre, post |-> signal']]
            /\ pc' = [pc EXCEPT ![d] = "lock"]
    /\ UNCHANGED << signal0, ext, input, on_done, lock, poisoned, nxt, callback,
                    spc, arg, results, calls, seeks, sets, stored, invoked, atCall,
                    endSeen >>

\* self.signal.fetch_sub(1, Ordering::Relaxed); self.signal_sent = true;
NextFetchSub(d) ==
    /\ pc[d] = "fetch_sub"
    /\ signal' = FetchSub(signal, 1)
    /\ signal_sent' = [signal_sent EXCEPT ![d] = TRUE]
    /\ decs' = [decs EXCEPT ![d] = decs[d] + 1]
    /\ fetch' = [fetch EXCEPT ![d] = [pre |-> signal, post |-> signal']]
    /\ pc' = [pc EXCEPT ![d] = "lock"]
    /\ UNCHANGED << signal0, ext, input, on_done, lock, poisoned, nxt, callback,
                    spc, arg, results, calls, seeks, sets, stored, invoked, atCall,
                    endSeen >>

\* A pattern that never matches: the callback is never called.
IsSomeNever(slot) == FALSE

\* The pattern of line 76: Some(callback) matches the slot.
IsSome(slot) == slot # None

\* self.on_done.lock().unwrap(), and the `if let Some(callback) = &*guard`:
\* the call waits while the lock is held; unwrap panics on a poisoned lock.
NextLock(d) ==
    /\ pc[d] = "lock"
    /\ lock[d] = "free"
    /\ IF poisoned[d]
       THEN /\ ret' = [ret EXCEPT ![d] = Panicked]
            /\ pc' = [pc EXCEPT ![d] = "idle"]
            /\ UNCHANGED << lock, callback, endSeen >>
       ELSE /\ lock' = [lock EXCEPT ![d] = "next"]
            /\ callback' = [callback EXCEPT ![d] = on_done[d]]
            /\ endSeen' = [endSeen EXCEPT ![d].slotAtLock = on_done[d],
                                          ![d].storedAtLock = stored[d]]
            /\ pc' = [pc EXCEPT ![d] = IF IsSome(on_done[d]) THEN "callback" ELSE "unlock"]
            /\ ret' = ret
    /\ UNCHANGED << shared, input, signal_sent, on_done, poisoned, nxt, spc, arg,
                    seekRet, setRet, meta, access, calls, seeks, sets, stored, decs, fetch,
                    invoked, atCall >>

\* A next that catches the callback's panic and goes on to return.
NextCallbackCatching(d) ==
    /\ pc[d] = "callback"
    /\ \E panics \in BOOLEAN :
        invoked' = [invoked EXCEPT ![d] =
                Append(invoked[d],
                       [ cb |-> callback[d], call |-> calls[d], panicked |-> panics,
                         slot |-> on_done[d], sent |-> signal_sent[d],
                         counter |-> signal ])]
    /\ pc' = [pc EXCEPT ![d] = "unlock"]
    /\ UNCHANGED << shared, input, signal_sent, on_done, lock, poisoned, nxt, callback,
                    spc, arg, results, calls, seeks, sets, stored, decs, fetch, atCall,
                    endSeen >>

\* A next that undoes its bookkeeping when the callback panics: the counter
\* is incremented back and the flag cleared.
NextCallbackRollingBack(d) ==
    /\ pc[d] = "callback"
    /\ \E panics \in BOOLEAN :
        /\ invoked' = [invoked EXCEPT ![d] =
                Append(invoked[d],
                       [ cb |-> callback[d], call |-> calls[d], panicked |-> panics,
                         slot |-> on_done[d], sent |-> signal_sent[d],
                         counter |-> signal ])]
        /\ IF panics
           THEN /\ lock' = [lock EXCEPT ![d] = "free"]
                /\ poisoned' = [poisoned EXCEPT ![d] = TRUE]
                /\ ret' = [ret EXCEPT ![d] = Panicked]
                /\ pc' = [pc EXCEPT ![d] = "idle"]
                /\ signal' = (signal + 1) % UsizeModulus
                /\ signal_sent' = [signal_sent EXCEPT ![d] = FALSE]
           ELSE /\ pc' = [pc EXCEPT ![d] = "unlock"]
                /\ UNCHANGED << lock, poisoned, ret, signal, signal_sent >>
    /\ UNCHANGED << signal0, ext, input, on_done, nxt, callback, spc, arg,
                    seekRet, setRet, meta, access, calls, seeks, sets, stored, decs, fetch,
                    atCall, endSeen >>

\* callback(): the callback returns, or panics; a panic unwinds through next,
\* dropping the guard, which poisons and releases the lock.
NextCallback(d) ==
    /\ pc[d] = "callback"
    /\ \E panics \in BOOLEAN :
        /\ invoked' = [invoked EXCEPT ![d] =
                Append(invoked[d],
                       [ cb |-> callback[d], call |-> calls[d], panicked |-> panics,
                         slot |-> on_done[d], sent |-> signal_sent[d],
                         counter |-> signal ])]
        /\ IF panics
           THEN /\ lock' = [lock EXCEPT ![d] = "free"]
                /\ poisoned' = [poisoned EXCEPT ![d] = TRUE]
                /\ ret' = [ret EXCEPT ![d] = Panicked]
                /\ pc' = [pc EXCEPT ![d] = "idle"]
           ELSE /\ pc' = [pc EXCEPT ![d] = "unlock"]
                /\ UNCHANGED << lock, poisoned, ret >>
    /\ UNCHANGED << shared, input, signal_sent, on_done, nxt, callback, spc, arg,
                    seekRet, setRet, meta, access, calls, seeks, sets, stored, decs, fetch,
                    atCall, endSeen >>

\* The guard is dropped at the end of the if-let.
NextUnlock(d) ==
    /\ pc[d] = "unlock"
    /\ lock' = [lock EXCEPT ![d] = "free"]
    /\ pc' = [pc EXCEPT ![d] = "return"]
    /\ UNCHANGED << shared, input, signal_sent, on_done, poisoned, nxt, callback, spc,
                    arg, results, history >>

\* A decorator that reports the end for ever once it has signalled.
NextReturnEndOnceSent(d) ==
    /\ pc[d] = "return"
    /\ ret' = [ret EXCEPT ![d] = Returned(IF signal_sent[d] THEN None ELSE nxt[d])]
    /\ pc' = [pc EXCEPT ![d] = "idle"]
    /\ UNCHANGED << shared, fields, nxt, callback, spc, arg, seekRet, setRet, meta, access,
                    history >>

\* next
NextReturn(d) ==
    /\ pc[d] = "return"
    /\ ret' = [ret EXCEPT ![d] = Returned(nxt[d])]
    /\ pc' = [pc EXCEPT ![d] = "idle"]
    /\ UNCHANGED << shared, fields, nxt, callback, spc, arg, seekRet, setRet, meta, access,
                    history >>

\* -------------------------------------------------------- Done::set_on_done
\* A set_on_done that does not wait for the lock.
SetOnDoneLockNoWait(d) ==
    /\ pc[d] # "unborn"
    /\ spc[d] = "idle"
    /\ sets[d] < MaxSets
    /\ sets' = [sets EXCEPT ![d] = sets[d] + 1]
    /\ IF poisoned[d]
       THEN /\ setRet' = [setRet EXCEPT ![d] = "panicked"]
            /\ UNCHANGED << lock, spc, arg >>
       ELSE /\ lock' = [lock EXCEPT ![d] = "set"]
            /\ spc' = [spc EXCEPT ![d] = "write"]
            /\ arg' = [arg EXCEPT ![d] = sets[d] + 1]
            /\ setRet' = setRet
    /\ UNCHANGED << shared, input, signal_sent, on_done, poisoned, pc, nxt, callback,
                    ret, seekRet, meta, access, calls, seeks, stored, decs, fetch, invoked,
                    atCall, endSeen >>

\* A set_on_done that takes the lock whether poisoned or not and stores.
SetOnDoneLockRecovering(d) ==
    /\ pc[d] # "unborn"
    /\ spc[d] = "idle"
    /\ sets[d] < MaxSets
    /\ lock[d] = "free"
    /\ sets' = [sets EXCEPT ![d] = sets[d] + 1]
    /\ lock' = [lock EXCEPT ![d] = "set"]
    /\ spc' = [spc EXCEPT ![d] = "write"]
    /\ arg' = [arg EXCEPT ![d] = sets[d] + 1]
    /\ UNCHANGED << shared, input, signal_sent, on_done, poisoned, pc, nxt, callback,
                    results, calls, seeks, stored, decs, fetch, invoked,
                    atCall, endSeen >>

\* self.on_done.lock().unwrap(): the call waits while the lock is held, and
\* unwrap panics on a poisoned lock.  Each call brings a callback of its own,
\* named by the number of the call.
SetOnDoneLock(d) ==
    /\ pc[d] # "unborn"
    /\ spc[d] = "idle"
    /\ sets[d] < MaxSets
    /\ lock[d] = "free"
    /\ sets' = [sets EXCEPT ![d] = sets[d] + 1]
    /\ IF poisoned[d]
       THEN /\ setRet' = [setRet EXCEPT ![d] = "panicked"]
            /\ UNCHANGED << lock, spc, arg >>
       ELSE /\ lock' = [lock EXCEPT ![d] = "set"]
            /\ spc' = [spc EXCEPT ![d] = "write"]
            /\ arg' = [arg EXCEPT ![d] = sets[d] + 1]
            /\ setRet' = setRet
    /\ UNCHANGED << shared, input, signal_sent, on_done, poisoned, pc, nxt, callback,
                    ret, seekRet, meta, access, calls, seeks, stored, decs, fetch, invoked,
                    atCall, endSeen >>

\* *guard = Some(Box::new(callback)): the store into the slot is not one
\* indivisible write; until it is finished the slot holds neither value.
SetOnDoneWrite(d) ==
    /\ spc[d] = "write"
    /\ on_done' = [on_done EXCEPT ![d] = Torn]
    /\ spc' = [spc EXCEPT ![d] = "store"]
    /\ UNCHANGED << shared, input, signal_sent, lock, poisoned, pc, nxt, callback, arg,
                    results, history >>

\* A set_on_done that stores its callback and never gives the lock back.
SetOnDoneStoreLeaking(d) ==
    /\ spc[d] = "store"
    /\ on_done' = [on_done EXCEPT ![d] = Some(arg[d])]
    /\ spc' = [spc EXCEPT ![d] = "idle"]
    /\ setRet' = [setRet EXCEPT ![d] = "ok"]
    /\ stored' = [stored EXCEPT ![d] = arg[d]]
    /\ UNCHANGED << shared, input, signal_sent, lock, poisoned, pc, nxt, callback, arg,
                    ret, seekRet, meta, access, calls, seeks, sets, decs, fetch, invoked,
                    atCall, endSeen >>

\* The store is finished and the guard dropped at the end of the statement.
SetOnDoneStore(d) ==
    /\ spc[d] = "store"
    /\ on_done' = [on_done EXCEPT ![d] = Some(arg[d])]
    /\ lock' = [lock EXCEPT ![d] = "free"]
    /\ spc' = [spc EXCEPT ![d] = "idle"]
    /\ setRet' = [setRet EXCEPT ![d] = "ok"]
    /\ stored' = [stored EXCEPT ![d] = arg[d]]
    /\ UNCHANGED << shared, input, signal_sent, poisoned, pc, nxt, callback, arg, ret,
                    seekRet, meta, access, calls, seeks, sets, decs, fetch, invoked, atCall,
                    endSeen >>

\* ------------------------------------------------------ impl Source for Done
\* A decorator that reports an empty frame once it has signalled.
DoneCurrentFrameLenZeroOnceSent(d) ==
    IF signal_sent[d] THEN Some(0) ELSE SrcCurrentFrameLen(input[d])

DoneCurrentFrameLen(d) == SrcCurrentFrameLen(input[d])

DoneChannels(d) == SrcChannels(input[d])

DoneSampleRate(d) == SrcSampleRate(input[d])

DoneTotalDuration(d) == SrcTotalDuration(input[d])

\* A try_seek that drops the inner source's error.
DoneTrySeekSwallowing(d, t) == [ res |-> "Ok", src |-> SrcTrySeek(input[d], t).src ]

\* The decorator's result of try_seek(t) and the inner source it leaves.
DoneTrySeek(d, t) == SrcTrySeek(input[d], t)

Asked(d, m) ==
    /\ pc[d] = "idle"
    /\ meta' = [meta EXCEPT ![d] = m]
    /\ UNCHANGED << shared, fields, locals, ret, seekRet, setRet, access, history >>

CurrentFrameLen(d) ==
    Asked(d, [NoMeta EXCEPT !.method = "current_frame_len",
                            !.current_frame_len = DoneCurrentFrameLen(d)])

Channels(d) ==
    Asked(d, [NoMeta EXCEPT !.method = "channels", !.channels = DoneChannels(d)])

SampleRate(d) ==
    Asked(d, [NoMeta EXCEPT !.method = "sample_rate", !.sample_rate = DoneSampleRate(d)])

TotalDuration(d) ==
    Asked(d, [NoMeta EXCEPT !.method = "total_duration",
                            !.total_duration = DoneTotalDuration(d)])

\* A try_seek that clears signal_sent when the seek succeeds, so that a
\* revived source signals its next end again.
TrySeekRearming(d, t) ==
    /\ pc[d] = "idle"
    /\ seeks[d] < MaxSeeks
    /\ LET r == DoneTrySeek(d, t) IN
        /\ input' = [input EXCEPT ![d] = r.src]
        /\ seekRet' = [seekRet EXCEPT ![d] = [pos |-> t, res |-> r.res]]
        /\ signal_sent' = [signal_sent EXCEPT ![d] = signal_sent[d] /\ r.res # "Ok"]
    /\ seeks' = [seeks EXCEPT ![d] = seeks[d] + 1]
    /\ meta' = [meta EXCEPT ![d] = NoMeta]
    /\ UNCHANGED << shared, on_done, lock, poisoned, locals, ret, setRet, access,
                    calls, sets, stored, decs, fetch, invoked, atCall, endSeen >>

TrySeek(d, t) ==
    /\ pc[d] = "idle"
    /\ seeks[d] < MaxSeeks
    /\ LET r == DoneTrySeek(d, t) IN
        /\ input' = [input EXCEPT ![d] = r.src]
        /\ seekRet' = [seekRet EXCEPT ![d] = [pos |-> t, res |-> r.res]]
    /\ seeks' = [seeks EXCEPT ![d] = seeks[d] + 1]
    /\ meta' = [meta EXCEPT ![d] = NoMeta]
    /\ UNCHANGED << shared, signal_sent, on_done, lock, poisoned, locals, ret, setRet, access,
                    calls, sets, stored, decs, fetch, invoked, atCall, endSeen >>

\* ------------------------------------------------------------ the accessors
\* inner(&self): a shared reference to the inner source; nothing is written.
Inner(d) ==
    /\ pc[d] = "idle"
    /\ access' = [access EXCEPT ![d] = [via |-> "inner", item |-> None]]
    /\ UNCHANGED << shared, fields, locals, ret, seekRet, setRet, meta, history >>

\* An inner_mut whose pull of the end does the bookkeeping of next: the
\* decrement and the flag.
InnerMutSignalling(d) ==
    /\ pc[d] = "idle"
    /\ LET r == SrcNext(input[d]) IN
        /\ input' = [input EXCEPT ![d] = r.src]
        /\ access' = [access EXCEPT ![d] = [via |-> "inner_mut", item |-> r.item]]
        /\ signal' = IF Exhausted(signal_sent[d], r.item)
                        THEN FetchSub(signal, 1) ELSE signal
        /\ signal_sent' = [signal_sent EXCEPT
                              ![d] = signal_sent[d] \/ r.item = None]
    /\ UNCHANGED << signal0, ext, on_done, lock, poisoned, locals,
                    ret, seekRet, setRet, meta, history >>

\* inner_mut(&mut self), and the caller pulling the inner source through the
\* reference it got: the decorator's next is not involved.
InnerMut(d) ==
    /\ pc[d] = "idle"
    /\ LET r == SrcNext(input[d]) IN
        /\ input' = [input EXCEPT ![d] = r.src]
        /\ access' = [access EXCEPT ![d] = [via |-> "inner_mut", item |-> r.item]]
    /\ UNCHANGED << shared, signal_sent, on_done, lock, poisoned, locals,
                    ret, seekRet, setRet, meta, history >>

\* into_inner(self): the decorator is consumed and the inner source handed
\* out; the counter handle and the slot are dropped with the decorator.
IntoInner(d) ==
    /\ pc[d] = "idle"
    /\ pc' = [pc EXCEPT ![d] = "unwrapped"]
    /\ access' = [access EXCEPT ![d] = [via |-> "into_inner", item |-> None]]
    /\ UNCHANGED << shared, fields, nxt, callback, spc, arg,
                    ret, seekRet, setRet, meta, history >>

\* A drop that signals the end for a decorator that has not signalled yet.
DropSignalling(d) ==
    /\ pc[d] = "idle"
    /\ pc' = [pc EXCEPT ![d] = "dropped"]
    /\ signal' = IF signal_sent[d] THEN signal ELSE FetchSub(signal, 1)
    /\ signal_sent' = [signal_sent EXCEPT ![d] = TRUE]
    /\ UNCHANGED << signal0, ext, input, on_done, lock, poisoned, nxt, callback,
                    spc, arg, results, history >>

\* The decorator goes out of scope: Done has no Drop of its own, its fields
\* are dropped and nothing else happens.
Drop(d) ==
    /\ pc[d] = "idle"
    /\ pc' = [pc EXCEPT ![d] = "dropped"]
    /\ UNCHANGED << shared, fields, nxt, callback, spc, arg, results, history >>

\* ------------------------------------------------------ the specifications
\* No call of set_on_done is running on d: next and try_seek take &mut self.
NotShared(d) == spc[d] = "idle"

\* No call of next or try_seek is running on d: set_on_done takes &self.
NotMut(d) == pc[d] = "idle"

Next ==
    \E d \in Decs :
        \/ New(d)
        \/ (NotShared(d) /\ NextPull(d))
        \/ NextFetchSub(d)
        \/ NextLock(d)
        \/ NextCallback(d)
        \/ NextUnlock(d)
        \/ NextReturn(d)
        \/ (NotMut(d) /\ SetOnDoneLock(d))
        \/ SetOnDoneWrite(d)
        \/ SetOnDoneStore(d)
        \/ CurrentFrameLen(d)
        \/ Channels(d)
        \/ SampleRate(d)
        \/ TotalDuration(d)
        \/ (NotShared(d) /\ \E t \in SeekTargets : TrySeek(d, t))

Spec == Init /\ [][Next]_vars

\* A consumer thread calling next and try_seek and a setter thread calling
\* set_on_done beside it, at any point of a running next.
NextRace ==
    \E d \in Decs :
        \/ New(d)
        \/ NextPull(d)
        \/ NextFetchSub(d)
        \/ NextLock(d)
        \/ NextCallback(d)
        \/ NextUnlock(d)
        \/ NextReturn(d)
        \/ SetOnDoneLock(d)
        \/ SetOnDoneWrite(d)
        \/ SetOnDoneStore(d)
        \/ \E t \in SeekTargets : TrySeek(d, t)

SpecRace == Init /\ [][NextRace]_vars

\* The owner of the decorator using next, set_on_done and the accessors, and
\* letting go of it: inner_mut, into_inner and a drop need the decorator
\* unborrowed, inner shares it with set_on_done.
NextOwner ==
    \E d \in Decs :
        \/ New(d)
        \/ (NotShared(d) /\ NextPull(d))
        \/ NextFetchSub(d)
        \/ NextLock(d)
        \/ NextCallback(d)
        \/ NextUnlock(d)
        \/ NextReturn(d)
        \/ (NotMut(d) /\ SetOnDoneLock(d))
        \/ SetOnDoneWrite(d)
        \/ SetOnDoneStore(d)
        \/ Inner(d)
        \/ (NotShared(d) /\ InnerMut(d))
        \/ (NotShared(d) /\ IntoInner(d))
        \/ (NotShared(d) /\ Drop(d))

SpecOwner == Init /\ [][NextOwner]_vars

\* Several decorators over one counter, each over a buffer and driven by a
\* thread of its own until it has signalled, beside other holders of the
\* counter; no callback is stored.
NextShared ==
    \/ ExternalFetchAdd
    \/ ExternalFetchSub
    \/ \E d \in Sharing :
        \/ (New(d) /\ input'[d].kind = "buffer")
        \/ (~signal_sent[d] /\ NextPull(d))
        \/ NextFetchSub(d)
        \/ NextLock(d)
        \/ NextUnlock(d)
        \/ NextReturn(d)

SpecShared == InitShared /\ [][NextShared]_vars

\* A consumer thread that keeps calling next and a setter thread calling
\* set_on_done beside it, at any point of a running next.
NextLive ==
    \E d \in Decs :
        \/ New(d)
        \/ NextPull(d)
        \/ NextFetchSub(d)
        \/ NextLock(d)
        \/ NextCallback(d)
        \/ NextUnlock(d)
        \/ NextReturn(d)
        \/ SetOnDoneLock(d)
        \/ SetOnDoneWrite(d)
        \/ SetOnDoneStore(d)

\* The consumer calls next again whenever the last call has ended, and a
\* thread inside next or set_on_done is scheduled again and again: a call
\* that can take its next step takes it, a callback that was started ends,
\* and a thread waiting for the lock gets it once it stays free.  Whether
\* and when the setter begins a call is left open.
SpecLive ==
    /\ Init
    /\ [][NextLive]_vars
    /\ \A d \in Decs :
        /\ WF_vars(NextPull(d))
        /\ WF_vars(NextFetchSub(d))
        /\ WF_vars(NextLock(d))
        /\ WF_vars(NextCallback(d))
        /\ WF_vars(NextUnlock(d))
        /\ WF_vars(NextReturn(d))
        /\ WF_vars(SetOnDoneWrite(d))
        /\ WF_vars(SetOnDoneStore(d))

\* ================================================================ the claims
RECURSIVE SumOver(_, _)
SumOver(f, S) ==
    IF S = {} THEN 0
    ELSE LET x == CHOOSE y \in S : TRUE IN f[x] + SumOver(f, S \ {x})

\* The first next() of d that pulled None is over (it returned or panicked).
EndCallOver(d) ==
    /\ endSeen[d].call # 0
    /\ \/ calls[d] > endSeen[d].call
       \/ pc[d] = "idle"

\* C1: whatever the number N of items the inner source yields before the end
\* and whatever the number K of further next() calls, the decorator has made
\* no decrement before its first next() that pulled None, and exactly one from
\* the decrement of that call on; the counter is then its initial value minus
\* one (modulo the width of usize).
C1_DecrementedExactlyOnce ==
    \A d \in Decs :
        /\ endSeen[d].call = 0 => decs[d] = 0
        /\ (endSeen[d].call # 0 /\ pc[d] # "fetch_sub") => decs[d] = 1
        /\ signal = (signal0 - SumOver(decs, Decs)) % UsizeModulus
        /\ EndCallOver(d) => signal = (signal0 - 1) % UsizeModulus

\* C1 witness: a source of MaxItems items, its end pulled in call MaxItems + 1,
\* and a further next() after it has returned None.
C1_Witness ==
    \E d \in Decs :
        /\ Len(input[d].items) = MaxItems
        /\ endSeen[d].call = MaxItems + 1
        /\ calls[d] > endSeen[d].call
        /\ pc[d] = "idle"
        /\ ret[d] = Returned(None)
        /\ decs[d] = 1

\* C2: a callback in the slot when the first next() that pulls None begins is
\* called exactly once, in that call: there is never more than one invocation,
\* every invocation happens in the call that first pulled None, and once that
\* call is over the callback it found stored has been invoked.
C2_CallbackOnceAtFirstEnd ==
    \A d \in Decs :
        /\ Len(invoked[d]) <= 1
        /\ \A i \in 1 .. Len(invoked[d]) :
            /\ endSeen[d].call # 0
            /\ invoked[d][i].call = endSeen[d].call
        /\ (EndCallOver(d) /\ endSeen[d].slot # None) =>
            /\ Len(invoked[d]) = 1
            /\ invoked[d][1].cb = endSeen[d].slot

\* C2 witness: the callback stored before the end was called once, the call
\* returned None and a later next() has returned too.
C2_Witness ==
    \E d \in Decs :
        /\ endSeen[d].slot = Some(1)
        /\ Len(invoked[d]) = 1
        /\ ~invoked[d][1].panicked
        /\ calls[d] > endSeen[d].call
        /\ pc[d] = "idle"
        /\ ret[d] = Returned(None)

\* C3: when the slot is empty at the first next() that pulls None, no callback
\* is ever invoked, whatever next, try_seek and set_on_done calls follow.
C3_LateCallbackNeverFires ==
    \A d \in Decs :
        (endSeen[d].call # 0 /\ endSeen[d].slot = None) => invoked[d] = << >>

\* C3 witness: the end was pulled with an empty slot; afterwards a callback was
\* stored, a seek succeeded and a later next() pulled None again.
C3_Witness ==
    \E d \in Decs :
        /\ endSeen[d].call # 0
        /\ endSeen[d].slot = None
        /\ on_done[d] = Some(1)
        /\ seekRet[d].res = "Ok"
        /\ calls[d] > endSeen[d].call + 1
        /\ pc[d] = "idle"
        /\ ret[d] = Returned(None)
        /\ invoked[d] = << >>

\* C4: the counter differs from its initial value, and a decorator has
\* decremented, only after a next() of a decorator pulled None: not after
\* Done::new on a counter of 0, not after a next() that returned an item, not
\* after a current_frame_len() that reported 0.
C4_DecrementOnlyAfterEnd ==
    /\ \A d \in Decs : decs[d] > 0 => endSeen[d].call # 0
    /\ (\A d \in Decs : endSeen[d].call = 0) => signal = signal0

\* C4 witness: the counter was 0 at construction, every item was returned and
\* current_frame_len() reports 0, and no next() has pulled None yet.
C4_Witness ==
    \E d \in Decs :
        /\ signal0 = 0
        /\ signal = 0
        /\ pc[d] = "idle"
        /\ calls[d] = MaxItems
        /\ ret[d] = Returned(Some(MaxItems))
        /\ meta[d].method = "current_frame_len"
        /\ meta[d].current_frame_len = Some(0)
        /\ endSeen[d].call = 0

\* C5: every next() of the decorator returns what the inner source's next()
\* gave for that call, and leaves the inner source where the bare next() leaves
\* it, whether or not the decrement and the callback happened in the call.
C5_NextPassthrough ==
    \A d \in Decs :
        LET bare == SrcNext(atCall[d].input) IN
        /\ pc[d] \notin {"unborn", "idle"} =>
            /\ nxt[d] = bare.item
            /\ input[d] = bare.src
        /\ (pc[d] = "idle" /\ ret[d].outcome = "returned") => ret[d].value = bare.item

\* C5 witness: the call that decremented and invoked the callback has returned
\* None, as the inner source did.
C5_Witness ==
    \E d \in Decs :
        /\ pc[d] = "idle"
        /\ calls[d] = endSeen[d].call
        /\ decs[d] = 1
        /\ Len(invoked[d]) = 1
        /\ SrcNext(atCall[d].input).item = None
        /\ ret[d] = Returned(None)

\* What the inner source s answers to the query named by the record m.
InnerAnswers(s, m) ==
    /\ m.method = "current_frame_len" => m.current_frame_len = SrcCurrentFrameLen(s)
    /\ m.method = "channels" => m.channels = SrcChannels(s)
    /\ m.method = "sample_rate" => m.sample_rate = SrcSampleRate(s)
    /\ m.method = "total_duration" => m.total_duration = SrcTotalDuration(s)

\* C6: every metadata query on the decorator (channels, sample_rate,
\* current_frame_len, total_duration) returns what the inner source answers at
\* that point, and the step changes neither signal_sent, nor the counter, nor
\* the callback slot, nor the inner source.
C6_MetadataPassthrough ==
    [][\A d \in Decs :
        (meta'[d] # meta[d] /\ meta'[d].method # "none") =>
            /\ InnerAnswers(input[d], meta'[d])
            /\ signal' = signal
            /\ signal_sent' = signal_sent
            /\ on_done' = on_done
            /\ input' = input
            /\ decs' = decs
            /\ invoked' = invoked]_vars

\* C6 witness: current_frame_len() asked of a stream after the signal was sent
\* (the inner source does not know its frame length).
C6_Witness ==
    \E d \in Decs :
        /\ signal_sent[d]
        /\ input[d].kind = "stream"
        /\ meta[d].method = "current_frame_len"
        /\ meta[d].current_frame_len = None

\* C7: try_seek(t) on the decorator returns the inner source's result for
\* try_seek(t) and leaves the inner source as that call leaves it; the step
\* changes neither signal_sent nor the counter and invokes no callback.
C7_SeekPassthrough ==
    [][\A d \in Decs :
        seeks'[d] # seeks[d] =>
            LET bare == SrcTrySeek(input[d], seekRet'[d].pos) IN
            /\ seekRet'[d].res = bare.res
            /\ input'[d] = bare.src
            /\ signal' = signal
            /\ signal_sent' = signal_sent
            /\ on_done' = on_done
            /\ decs' = decs
            /\ invoked' = invoked]_vars

\* C7 witness: a seek past the end of a signalled decorator's source failed
\* with the inner source's error.
C7_Witness ==
    \E d \in Decs :
        /\ signal_sent[d]
        /\ seeks[d] = 1
        /\ seekRet[d].res = "Err(OutOfRange)"
        /\ endSeen[d].call # 0
        /\ calls[d] = endSeen[d].call

\* C8: a decrement made when the counter is 0 leaves usize::MAX, and the call
\* goes on as any other: unless the callback panics it returns None.
C8_WrapsAtZero ==
    \A d \in Decs :
        (decs[d] >= 1 /\ fetch[d].pre = 0) =>
            /\ fetch[d].post = UsizeMax
            /\ signal = UsizeMax
            /\ pc[d] # "unborn"
            /\ (EndCallOver(d) /\ calls[d] = endSeen[d].call
                    /\ \A i \in 1 .. Len(invoked[d]) : ~invoked[d][i].panicked)
                => ret[d] = Returned(None)

\* C8 witness: the counter was 0 when the end was pulled, is usize::MAX now,
\* and the call has returned None.
C8_Witness ==
    \E d \in Decs :
        /\ signal0 = 0
        /\ fetch[d] = [pre |-> 0, post |-> UsizeMax]
        /\ signal = UsizeMax
        /\ pc[d] = "idle"
        /\ calls[d] = endSeen[d].call
        /\ ret[d] = Returned(None)

\* C9: with set_on_done running beside next, the callback invoked is the value
\* the slot held when next took the lock, which is the callback of the last
\* set_on_done that had finished by then, and the slot still holds it while it
\* runs; no other callback is invoked, and next never reads a slot that is
\* half written.
C9_InvokesSlotAtLock ==
    \A d \in Decs :
        /\ callback[d] # Torn
        /\ Len(invoked[d]) <= 1
        /\ \A i \in 1 .. Len(invoked[d]) :
            /\ invoked[d][i].cb = endSeen[d].slotAtLock
            /\ invoked[d][i].cb = Some(endSeen[d].storedAtLock)
            /\ invoked[d][i].slot = invoked[d][i].cb

\* C9 witness: the slot was empty when the call began, callback 1 was stored
\* before next took the lock and was invoked, and callback 2, stored after the
\* lock was taken, was not.
C9_Witness ==
    \E d \in Decs :
        /\ endSeen[d].slot = None
        /\ endSeen[d].slotAtLock = Some(1)
        /\ Len(invoked[d]) = 1
        /\ invoked[d][1].cb = Some(1)
        /\ on_done[d] = Some(2)
        /\ pc[d] = "idle"

\* A callback of d has panicked.
CallbackPanicked(d) == \E i \in 1 .. Len(invoked[d]) : invoked[d][i].panicked

\* C10 as stated: the next() whose callback panics ends by that panic, and no
\* call on the decorator ends by a panic otherwise: no other next(), and no
\* set_on_done.
C10_NoOtherError ==
    \A d \in Decs :
        /\ (pc[d] = "idle" /\ \E i \in 1 .. Len(invoked[d]) :
                invoked[d][i].panicked /\ invoked[d][i].call = calls[d])
            => ret[d] = Panicked
        /\ ret[d] = Panicked =>
            \E i \in 1 .. Len(invoked[d]) :
                invoked[d][i].panicked /\ invoked[d][i].call = endSeen[d].call
        /\ setRet[d] # "panicked"

\* C10, amended: the next() whose callback panics ends by that panic instead
\* of returning; no next() ends by a panic otherwise; set_on_done panics only
\* on the lock a panicking callback has poisoned; while no callback has
\* panicked, nothing is poisoned and no call has ended by a panic.
C10_PanicPropagates ==
    \A d \in Decs :
        /\ (pc[d] = "idle" /\ \E i \in 1 .. Len(invoked[d]) :
                invoked[d][i].panicked /\ invoked[d][i].call = calls[d])
            => ret[d] = Panicked
        /\ ret[d] = Panicked =>
            \E i \in 1 .. Len(invoked[d]) :
                invoked[d][i].panicked /\ invoked[d][i].call = endSeen[d].call
        /\ setRet[d] = "panicked" => (poisoned[d] /\ CallbackPanicked(d))
        /\ ~CallbackPanicked(d) =>
            (~poisoned[d] /\ ret[d] # Panicked /\ setRet[d] # "panicked")

\* C10 witness: the callback panicked in the call that pulled the end, and
\* that call ended by the panic.
C10_Witness ==
    \E d \in Decs :
        /\ pc[d] = "idle"
        /\ calls[d] = endSeen[d].call
        /\ Len(invoked[d]) = 1
        /\ invoked[d][1].panicked
        /\ ret[d] = Panicked
        /\ poisoned[d]

\* C11: signal_sent is never reset: once a next() of the decorator has pulled
\* the end and passed its fetch_sub, signal_sent stays true whatever next,
\* try_seek and set_on_done do afterwards, so that the counter is decremented
\* at most once and the callback invoked at most once, also when a seek has
\* revived the source and it runs out a second time.
C11_SignalledAtMostOnce ==
    \A d \in Decs :
        /\ decs[d] <= 1
        /\ Len(invoked[d]) <= 1
        /\ decs[d] = 1 => signal_sent[d]
        /\ (endSeen[d].call # 0 /\ pc[d] # "fetch_sub") => signal_sent[d]
        /\ pc[d] = "fetch_sub" => (calls[d] = endSeen[d].call /\ decs[d] = 0)

\* C11 witness: after the call that signalled, a seek succeeded, the next
\* call returned an item again, and the call after that has pulled the end a
\* second time and goes straight to its return.
C11_Witness ==
    \E d \in Decs :
        /\ endSeen[d].call # 0
        /\ calls[d] = endSeen[d].call + 2
        /\ seekRet[d].res = "Ok"
        /\ ret[d] # Returned(None) /\ ret[d].outcome = "returned"
        /\ pc[d] = "return"
        /\ nxt[d] = None
        /\ signal_sent[d]
        /\ decs[d] = 1
        /\ Len(invoked[d]) = 1

\* C12: every step of inner(), inner_mut() (with the pull the caller makes
\* through the reference) and into_inner() leaves signal_sent, the counter
\* and the callback slot as they were, takes no lock and invokes no callback;
\* so a decorator whose end was pulled through inner_mut() has done none of
\* the bookkeeping of the end.
C12_AccessorsLeaveBookkeeping ==
    [][\A d \in Decs :
          (Inner(d) \/ InnerMut(d) \/ IntoInner(d)) =>
              /\ signal' = signal
              /\ signal_sent'[d] = signal_sent[d]
              /\ on_done'[d] = on_done[d]
              /\ lock'[d] = lock[d]
              /\ poisoned'[d] = poisoned[d]
              /\ decs'[d] = decs[d]
              /\ invoked'[d] = invoked[d]
              /\ endSeen'[d] = endSeen[d]]_vars

\* C12 witness: the end of the inner source was pulled through inner_mut()
\* while a callback was stored and no next() of the decorator had seen the
\* end: nothing is decremented, flagged or invoked.
C12_Witness ==
    \E d \in Decs :
        /\ access[d] = [via |-> "inner_mut", item |-> None]
        /\ endSeen[d].call = 0
        /\ on_done[d] # None
        /\ ~signal_sent[d]
        /\ signal = signal0
        /\ decs[d] = 0
        /\ invoked[d] = << >>

\* The decorator d is gone: unwrapped by into_inner() or dropped.
Gone(d) == pc[d] \in {"unwrapped", "dropped"}

\* No finished next() of d has returned the end: either none has pulled it,
\* or the only call that pulled it was the last one and ended by the panic
\* of the callback.
NoEndReturned(d) ==
    \/ endSeen[d].call = 0
    \/ (endSeen[d].call = calls[d] /\ ret[d] = Panicked)

\* C18 as stated: a decorator unwrapped or dropped before any of its next()
\* calls has returned the end has not decremented the counter.
C18_NoDecrementBeforeEndReturned ==
    \A d \in Decs :
        (Gone(d) /\ NoEndReturned(d)) => (decs[d] = 0 /\ signal = signal0)

\* C18, amended: a decorator unwrapped or dropped before any of its next()
\* calls has pulled the end from the inner source has not decremented the
\* counter and was not flagged; one unwrapped or dropped later has
\* decremented exactly once, in that next(): into_inner() and the drop
\* themselves never decrement.
C18_NoDecrementBeforeEndPulled ==
    \A d \in Decs :
        Gone(d) =>
            /\ decs[d] = (IF endSeen[d].call = 0 THEN 0 ELSE 1)
            /\ signal = FetchSub(signal0, decs[d])
            /\ endSeen[d].call = 0 => ~signal_sent[d]

\* C18 witness: a decorator that has returned items and whose inner source
\* has run out (as a pull through inner_mut() found) is unwrapped or dropped
\* without a next() having pulled the end; the counter is where it started.
C18_Witness ==
    \E d \in Decs :
        /\ Gone(d)
        /\ calls[d] >= 1
        /\ endSeen[d].call = 0
        /\ input[d].pos = Len(input[d].items)
        /\ signal = signal0
        /\ decs[d] = 0

\* C13: for an empty inner source the first next() of the decorator is the
\* call that pulls the end: past its fetch_sub the counter is decremented
\* once and signal_sent is set, and by the time that call has ended it has
\* invoked the callback stored when it began, if there was one, and, unless
\* the callback panicked, returned None.
C13_EmptySourceSignalsInFirstCall ==
    \A d \in Decs :
        (pc[d] # "unborn" /\ input[d].items = << >> /\ calls[d] >= 1) =>
            /\ endSeen[d].call = 1
            /\ pc[d] # "fetch_sub" => (decs[d] = 1 /\ signal_sent[d])
            /\ pc[d] \in {"fetch_sub", "lock", "callback", "unlock"} => calls[d] = 1
            /\ (pc[d] = "idle" \/ calls[d] > 1) =>
                /\ IsSome(endSeen[d].slot) =>
                    (Len(invoked[d]) = 1 /\ invoked[d][1].call = 1)
                /\ (calls[d] = 1 /\ ~CallbackPanicked(d)) => ret[d] = Returned(None)

\* C13 witness: the only call so far on a decorator over an empty source,
\* made with a callback stored, has decremented, set the flag, invoked the
\* callback and returned None.
C13_Witness ==
    \E d \in Decs :
        /\ input[d].items = << >>
        /\ calls[d] = 1
        /\ pc[d] = "idle"
        /\ ret[d] = Returned(None)
        /\ signal_sent[d]
        /\ decs[d] = 1
        /\ Len(invoked[d]) = 1
        /\ invoked[d][1].call = 1

\* C14: the decrement and the flag come before the lock and the callback:
\* while next() waits for the lock, holds it or runs the callback, the
\* counter is already decremented and signal_sent is true, and every callback
\* found, when it started, signal_sent true and the counter one below (mod
\* 2^w) the value it had before the decorator's decrement.
C14_DecrementBeforeCallback ==
    \A d \in Decs :
        /\ pc[d] \in {"lock", "callback", "unlock"} =>
            /\ signal_sent[d]
            /\ decs[d] = 1
            /\ signal = FetchSub(signal0, 1)
            /\ fetch[d].post = signal
        /\ \A i \in 1 .. Len(invoked[d]) :
            /\ invoked[d][i].sent
            /\ invoked[d][i].counter = FetchSub(signal0, 1)
            /\ invoked[d][i].counter = fetch[d].post

\* C14 witness: the callback is about to start, with the lock held, the
\* counter decremented and the flag set.
C14_Witness ==
    \E d \in Decs :
        /\ pc[d] = "callback"
        /\ lock[d] = "next"
        /\ signal_sent[d]
        /\ decs[d] = 1
        /\ signal = FetchSub(signal0, 1)

\* C15: next() waits for the lock or holds it only in the call that pulled
\* the end for the first time, after that call's decrement; a call that
\* pulled an item and a call made once signal_sent is true go from their pull
\* to their return whatever a set_on_done running beside them does with the
\* lock.
C15_LockOnlyInExhaustingCall ==
    \A d \in Decs :
        /\ (pc[d] \in {"lock", "callback", "unlock"} \/ lock[d] = "next") =>
            /\ calls[d] = endSeen[d].call
            /\ nxt[d] = None
            /\ decs[d] = 1
        /\ (pc[d] # "idle" /\ pc[d] # "unborn" /\ ~Gone(d)
                /\ calls[d] # endSeen[d].call) =>
            pc[d] = "return"

\* C15 witness: a call made after the flag was set is on its way to its
\* return while a set_on_done holds the lock.
C15_Witness ==
    \E d \in Decs :
        /\ pc[d] = "return"
        /\ signal_sent[d]
        /\ calls[d] > endSeen[d].call
        /\ endSeen[d].call # 0
        /\ lock[d] = "set"

\* C19: once a callback has panicked, the decrement and the flag of that
\* call stay: signal_sent is true, the counter is one below its start, the
\* one invocation stays the only one, no later call comes near the fetch_sub
\* or the lock, and every later next() returns what the inner source gave it.
C19_PanicKeepsBookkeeping ==
    \A d \in Decs :
        CallbackPanicked(d) =>
            /\ signal_sent[d]
            /\ decs[d] = 1
            /\ signal = FetchSub(signal0, 1)
            /\ Len(invoked[d]) = 1
            /\ invoked[d][1].call = endSeen[d].call
            /\ pc[d] \in {"idle", "return"}
            /\ (pc[d] = "idle" /\ calls[d] > endSeen[d].call) =>
                ret[d] = Returned(SrcNext(atCall[d].input).item)

\* C19 witness: after the call whose callback panicked, a later next() has
\* pulled the end again and returned None; still one decrement and one
\* invocation.
C19_Witness ==
    \E d \in Decs :
        /\ CallbackPanicked(d)
        /\ pc[d] = "idle"
        /\ calls[d] > endSeen[d].call
        /\ SrcNext(atCall[d].input).item = None
        /\ ret[d] = Returned(None)
        /\ decs[d] = 1
        /\ Len(invoked[d]) = 1

\* C20: a set_on_done begun while no callback has panicked finds the lock
\* free and unpoisoned, takes it, and ends by storing its callback and
\* returning; a set_on_done begun after a callback panicked finds the lock
\* poisoned and panics, leaving the slot as it was.
C20_SetOnDoneUntilPoisoned ==
    [][\A d \in Decs :
          /\ sets'[d] # sets[d] =>
                IF CallbackPanicked(d)
                THEN /\ poisoned[d]
                     /\ setRet'[d] = "panicked"
                     /\ on_done'[d] = on_done[d]
                     /\ stored'[d] = stored[d]
                     /\ spc'[d] = "idle"
                     /\ lock'[d] = "free"
                ELSE /\ ~poisoned[d]
                     /\ lock'[d] = "set"
                     /\ spc'[d] = "write"
                     /\ arg'[d] = sets'[d]
          /\ (spc[d] # "idle" /\ spc'[d] = "idle") =>
                /\ setRet'[d] = "ok"
                /\ on_done'[d] = Some(arg[d])
                /\ lock'[d] = "free"
          /\ (pc'[d] = "idle" /\ spc'[d] = "idle") => lock'[d] = "free"]_vars

\* C20 witness: a first set_on_done stored its callback, that callback
\* panicked at the end, and a second set_on_done panicked on the poisoned
\* lock: the slot still holds the first callback.
C20_Witness ==
    \E d \in Decs :
        /\ CallbackPanicked(d)
        /\ poisoned[d]
        /\ sets[d] = 2
        /\ setRet[d] = "panicked"
        /\ stored[d] = 1
        /\ on_done[d] = Some(1)

\* C16: with several decorators on one counter, each run by its own thread,
\* and other holders incrementing and decrementing it, the counter is at
\* every moment its start plus the net change of the others minus one for
\* each decorator that has passed its fetch_sub (mod 2^w), each decorator
\* passing it once, in the call that first pulled the end; so when all k
\* decorators have finished that call, the counter is start + external - k.
C16_NoDecrementLost ==
    /\ signal = (signal0 + ext - SumOver(decs, DOMAIN decs)) % UsizeModulus
    /\ \A d \in DOMAIN decs :
        decs[d] = (IF endSeen[d].call # 0 /\ pc[d] # "fetch_sub" THEN 1 ELSE 0)
    /\ (\A d \in DOMAIN decs : EndCallOver(d)) =>
        signal = (signal0 + ext - Cardinality(DOMAIN decs)) % UsizeModulus

\* C16 witness: two decorators whose fetch_subs followed one another with
\* no step between have both finished the call that pulled the end, the
\* others have changed the counter too, and the counter has wrapped.
C16_Witness ==
    /\ Cardinality(DOMAIN decs) = 2
    /\ \A d \in DOMAIN decs : EndCallOver(d) /\ decs[d] = 1
    /\ \E d, e \in DOMAIN decs : d # e /\ fetch[e].pre = fetch[d].post
    /\ ext # 0
    /\ signal > signal0 + ext
    /\ signal = (signal0 + ext - 2) % UsizeModulus

\* C17: a constructed decorator whose consumer keeps calling next()
\* eventually has signal_sent true and the counter decremented, and the call
\* that pulled the end comes to its end, whatever a set_on_done thread does
\* beside it; the lock, once taken by either thread, is given back, and a
\* set_on_done that has begun returns.
C17_EventuallySignalled ==
    \A d \in Decs :
        /\ (pc[d] # "unborn") ~> (signal_sent[d] /\ decs[d] = 1 /\ EndCallOver(d))
        /\ (lock[d] # "free") ~> (lock[d] = "free")
        /\ (pc[d] = "lock") ~> (pc[d] = "idle")
        /\ (spc[d] # "idle") ~> (spc[d] = "idle")

\* C17 witness: the exhausting call has ended with the flag set and the
\* counter decremented, although set_on_done calls ran beside it: the slot
\* changed between the beginning of that call and its taking the lock, and
\* the setter has made all its calls.
C17_Witness ==
    \E d \in Decs :
        /\ signal_sent[d]
        /\ decs[d] = 1
        /\ EndCallOver(d)
        /\ sets[d] = MaxSets
        /\ spc[d] = "idle"
        /\ endSeen[d].slotAtLock # endSeen[d].slot
        /\ lock[d] = "free"

====
